---------------------------- MODULE Spec2Model ----------------------------
(***************************************************************************)
(* A model of Fetch.tsx: the Fetch component (a wrapper around useQuery /  *)
(* useQueries of @tanstack/react-query), its request executor              *)
(* makeFetchRequest and its helpers.                                       *)
(*                                                                         *)
(* JavaScript values are written as follows.  A value of a string-like     *)
(* prop is a TLA+ string; the values undefined, null, 0, true and false    *)
(* are the tokens Undef, Null, Zero, True and False.  A prop holding a     *)
(* structured value (an array, an object) is Absent (<<>>) when it is not  *)
(* supplied and Given(v) (<<v>>) when it is.                               *)
(***************************************************************************)
EXTENDS Naturals, Sequences, FiniteSets, TLC

VARIABLES
    props,      \* props[c]: the props component c is rendered with
    mounted,    \* the components that have been rendered at least once
    cache,      \* the query cache: query key -> slot (state of one query)
    output      \* output[c]: what the latest render of Fetch produced for c

vars == <<props, mounted, cache, output>>

---------------------------------------------------------------------------
(* JavaScript values *)

Undef == "undefined"
Null  == "null"
Zero  == "0"
True  == "true"
False == "false"

Absent   == <<>>
Given(v) == <<v>>
Get(o)   == o[1]

\* JavaScript truthiness of a string-like value (if (v), v && ..., v ? a : b)
Truthy(v) == v \notin {Undef, Null, Zero, False, ""}

---------------------------------------------------------------------------
(* Bounds *)

\* the longest urls array a component is rendered with
MaxUrls == 2

\* how many times the query engine re-runs a failed executor for one slot
MaxRetries == 1

---------------------------------------------------------------------------
(* Key Builder and Request Executor *)

BASE_URL == "http://localhost:8000"

\* String(item) of a string item is the item itself
String(v) == v

\* buildQueryString(params).  params is Absent or Given(entries), entries the
\* sequence of Object.entries(params) in insertion order.  An entry is
\* [key, kind, items]: kind "nullish" (value null or undefined, items <<>>),
\* "scalar" (items <<value>>) or "array" (items the elements, Null or Undef
\* for a null or undefined element).  AppendEntries gives the sequence of
\* (key, value) pairs the URLSearchParams object holds, which toString()
\* writes in that order.
RECURSIVE AppendItems(_, _, _)
AppendItems(urlParams, key, items) ==
    IF items = <<>> THEN urlParams
    ELSE AppendItems(IF Head(items) \in {Null, Undef}
                         THEN urlParams
                         ELSE Append(urlParams, <<key, String(Head(items))>>),
                     key, Tail(items))

RECURSIVE AppendEntries(_, _)
AppendEntries(urlParams, entries) ==
    IF entries = <<>> THEN urlParams
    ELSE LET e == Head(entries)
             next == IF e.kind = "nullish" THEN urlParams
                     ELSE IF e.kind = "array"
                         THEN AppendItems(urlParams, e.key, e.items)
                         ELSE Append(urlParams, <<e.key, String(e.items[1])>>)
         IN  AppendEntries(next, Tail(entries))

\* urlParams.toString(): key=value joined by "&".  The keys and values of the
\* model are letters and digits, which the serialisation writes as they are.
RECURSIVE ToQueryString(_)
ToQueryString(urlParams) ==
    IF urlParams = <<>> THEN ""
    ELSE Head(urlParams)[1] \o "=" \o Head(urlParams)[2]
            \o (IF Tail(urlParams) = <<>> THEN ""
                ELSE "&" \o ToQueryString(Tail(urlParams)))

\* the URLSearchParams object buildQueryString has filled when it returns;
\* none is made for an absent mapping
UrlParamsOf(params) ==
    IF params = Absent THEN <<>> ELSE AppendEntries(<<>>, Get(params))

\* a variant that returns the question mark for an absent mapping and
\* appends every element of an array, null or not
buildQueryStringUnfiltered(params) ==
    IF params = Absent THEN "?"
    ELSE LET all(e) == [i \in 1..Len(e.items) |-> <<e.key, e.items[i]>>]
             entries == Get(params)
             pairs[n \in 0..Len(entries)] ==
                 IF n = 0 THEN <<>>
                 ELSE pairs[n-1] \o (IF entries[n].kind = "nullish" THEN <<>>
                                     ELSE all(entries[n]))
         IN  ToQueryString(pairs[Len(entries)])

buildQueryString(params) ==
    IF params = Absent THEN "" ELSE ToQueryString(UrlParamsOf(params))

\* JSON.stringify of the request bodies the model uses
BodyUser == "{name: John}"
JSONStringify(v) ==
    CASE v = BodyUser -> "{\"name\":\"John\"}"
      [] v = Zero     -> "0"

\* The transport request one call of makeFetchRequest sends: fetch(address, init)
TransportRequest(url, method, params, body) ==
    [address |-> IF params # Absent
                     THEN <<BASE_URL, url, "?", buildQueryString(params)>>
                     ELSE <<BASE_URL, url>>,
     method  |-> method,
     headers |-> <<"Content-Type: application/json", "Accept: application/json">>,
     body    |-> IF Truthy(body) THEN Given(JSONStringify(body)) ELSE Absent]

\* makeFetchRequest up to its await of fetch(): the transport calls it makes
MakeFetchRequestSends(url, method, params, body) ==
    << TransportRequest(url, method, params, body) >>

---------------------------------------------------------------------------
(* Transport results and the outcome of makeFetchRequest *)

\* The locators the components of the model fetch
Locators == {"/a", "/b"}

\* The JSON text the server holds for a locator, and a body that is no JSON
ResourceText(url) == "[\"" \o url \o "\"]"
NotFoundText == "not found"

\* JSON.parse on the body texts of the model: Given(value), or Absent when
\* the text is not JSON (response.json() then rejects with a SyntaxError)
JSONParse(text) ==
    IF \E u \in Locators : text = ResourceText(u)
        THEN Given(<< CHOOSE u \in Locators : text = ResourceText(u) >>)
        ELSE Absent

JSON_CT         == "application/json"
JSON_CT_CHARSET == "application/json; charset=utf-8"
HTML_CT         == "text/html"

\* contentType.includes("application/json") on the content types of the model
IncludesApplicationJson(contentType) ==
    contentType \in {JSON_CT, JSON_CT_CHARSET}

\* What the transport gives back for a request: a response, or no response
\* at all (fetch() rejects with a TypeError)
Response(status, contentType, text) ==
    [kind |-> "response", status |-> status, contentType |-> contentType,
     text |-> text]
NetworkFailure ==
    [kind |-> "rejected", status |-> 0, contentType |-> Null, text |-> ""]

ResponsesFor(request) ==
    { Response(st, ct, tx) :
        st \in {200, 404},
        ct \in {Null, JSON_CT, JSON_CT_CHARSET, HTML_CT},
        tx \in {ResourceText(request.address[2]), NotFoundText} }

\* every result of the transport / the two the aggregation scenarios use
TransportResults(request) == ResponsesFor(request) \cup {NetworkFailure}
PlainResults(request) ==
    { Response(200, JSON_CT, ResourceText(request.address[2])),
      Response(404, HTML_CT, NotFoundText) }

\* response.ok
ResponseOk(response) == response.status \in 200..299

\* Error objects.  thrownBy stands for the identity of the object: the
\* address of the request whose executor call created it.
NullError == [name |-> Null, message |-> "", thrownBy |-> <<>>]
Error(name, message, by) == [name |-> name, message |-> message, thrownBy |-> by]

Resolved(value) == [resolved |-> TRUE,  data |-> Given(value), error |-> NullError]
Rejected(error) == [resolved |-> FALSE, data |-> Absent, error |-> error]

\* a variant that inspects the content type before the status
MakeFetchRequestOutcomeTypeFirst(request, result) ==
    IF result.kind = "rejected"
        THEN Rejected(Error("TypeError", "Failed to fetch", request.address))
    ELSE IF ~Truthy(result.contentType)
            \/ ~IncludesApplicationJson(result.contentType)
        THEN Rejected(Error("Error",
                 "Expected JSON response but got " \o result.contentType
                     \o ", body: " \o result.text,
                 request.address))
    ELSE IF ~ResponseOk(result)
        THEN Rejected(Error("Error",
                 "HTTP error! status: " \o ToString(result.status)
                     \o ", body: " \o result.text,
                 request.address))
    ELSE IF JSONParse(result.text) = Absent
        THEN Rejected(Error("SyntaxError", "Unexpected token", request.address))
    ELSE Resolved(Get(JSONParse(result.text)))

\* makeFetchRequest from the transport's result on: what the promise settles to
MakeFetchRequestOutcome(request, result) ==
    IF result.kind = "rejected"
        THEN Rejected(Error("TypeError", "Failed to fetch", request.address))
    ELSE IF ~ResponseOk(result)
        THEN Rejected(Error("Error",
                 "HTTP error! status: " \o ToString(result.status)
                     \o ", body: " \o result.text,
                 request.address))
    ELSE IF ~Truthy(result.contentType)
            \/ ~IncludesApplicationJson(result.contentType)
        THEN Rejected(Error("Error",
                 "Expected JSON response but got " \o result.contentType
                     \o ", body: " \o result.text,
                 request.address))
    ELSE IF JSONParse(result.text) = Absent
        THEN Rejected(Error("SyntaxError", "Unexpected token", request.address))
    ELSE Resolved(Get(JSONParse(result.text)))

---------------------------------------------------------------------------
(* The Fetch component *)

DefaultLoading == "<div>Loading...</div>"
Spinner        == "<Spinner />"

\* ErrorComponent is Absent, a component (a function of {error}) or an element
DefaultError == [isElement |-> FALSE, type |-> "DefaultError", props |-> {}]
CustomError  == [isElement |-> FALSE, type |-> "CustomError", props |-> {}]
ErrorBanner  == [isElement |-> TRUE, type |-> "ErrorBanner",
                 props |-> {<<"title", "Oops">>}]

\* The argument of children: one slot's data, or the array of every slot's
NoArg         == [isArray |-> FALSE, items |-> <<>>]
One(data)     == [isArray |-> FALSE, items |-> <<data>>]
Array(items)  == [isArray |-> TRUE,  items |-> items]

\* What a render of Fetch produces: an error view, the loading view, the
\* result of children(data), or an exception thrown out of the render
Output(kind, type, elemProps, error, arg) ==
    [kind |-> kind, type |-> type, props |-> elemProps, error |-> error,
     arg |-> arg]
NotRendered == Output("none", "", {}, NullError, NoArg)
Throws(error) == Output("throw", "", {}, error, NoArg)

ConfigurationError ==
    Error("Error",
          "Fetch component requires either url, urls, or queryOptions prop",
          <<>>)
NotAFunction == Error("TypeError", "children is not a function", <<>>)

\* the defaults of the destructured props
MethodOf(p)           == IF p.method = Undef THEN "GET" ELSE p.method
\* a variant without the default loading view
LoadingComponentOfNoDefault(p) == p.LoadingComponent

LoadingComponentOf(p) ==
    IF p.LoadingComponent = Undef THEN DefaultLoading ELSE p.LoadingComponent
ErrorComponentOf(p)   ==
    IF p.ErrorComponent = Absent THEN DefaultError ELSE Get(p.ErrorComponent)
\* a variant that never waits for all
WaitForAllOfNever(p)  == False

WaitForAllOf(p)       == IF p.waitForAll = Undef THEN False ELSE p.waitForAll

\* queryFn: () => makeFetchRequest(url, method, params, body)
MakeFetchRequestFn(url, method, params, body) ==
    [fn |-> "makeFetchRequest", args |-> <<url, method, params, body>>]

\* a variant that leaves the body out of the key
DerivedKeyNoBody(url, method, params, body) == <<url, method, params>>

\* [url, method, params, body]
DerivedKey(url, method, params, body) == <<url, method, params, body>>

\* a variant whose derived key is the url alone
SingleQueryUrlKey(p) ==
    [queryKey |-> IF p.queryOptions # Absent
                       /\ Get(p.queryOptions).queryKey # Absent
                      THEN Get(Get(p.queryOptions).queryKey)
                      ELSE <<p.url>>,
     queryFn  |-> [fn |-> "makeFetchRequest",
                   args |-> <<p.url, IF p.method = Undef THEN "GET" ELSE p.method,
                              p.params, p.body>>]]

\* the options object handed to useQuery in the single URL case
SingleQuery(p) ==
    [queryKey |-> IF p.queryOptions # Absent
                       /\ Get(p.queryOptions).queryKey # Absent
                      THEN Get(Get(p.queryOptions).queryKey)
                      ELSE DerivedKey(p.url, MethodOf(p), p.params, p.body),
     queryFn  |-> MakeFetchRequestFn(p.url, MethodOf(p), p.params, p.body)]

\* urls.map((url) => ({...queryOptions, queryKey, queryFn}))
UrlsQuery(p, url) ==
    [queryKey |-> DerivedKey(url, MethodOf(p), p.params, p.body),
     queryFn  |-> MakeFetchRequestFn(url, MethodOf(p), p.params, p.body)]
UrlsQueries(p) ==
    [i \in 1..Len(Get(p.urls)) |-> UrlsQuery(p, Get(p.urls)[i])]

\* a variant that keeps the caller's key but runs makeFetchRequest
OptionsQueryOwnExecutor(p) ==
    [queryKey |-> IF Get(p.queryOptions).queryKey = Absent
                      THEN <<>>
                      ELSE Get(Get(p.queryOptions).queryKey),
     queryFn  |-> [fn |-> "makeFetchRequest",
                   args |-> <<p.url, IF p.method = Undef THEN "GET" ELSE p.method,
                              p.params, p.body>>]]

\* useQuery(queryOptions): the caller's own key and function.  A missing
\* queryKey is the key undefined, written <<>>.
OptionsQuery(p) ==
    [queryKey |-> IF Get(p.queryOptions).queryKey = Absent
                      THEN <<>>
                      ELSE Get(Get(p.queryOptions).queryKey),
     queryFn  |-> Get(p.queryOptions).queryFn]

\* which of the three cases of Fetch a render with props p takes
Mode(p) ==
    IF Truthy(p.url) THEN "url"
    ELSE IF p.urls # Absent THEN "urls"
    ELSE IF p.queryOptions # Absent THEN "queryOptions"
    ELSE "none"

\* the queries a render with props p hands to useQuery / useQueries
Queries(p) ==
    CASE Mode(p) = "url"          -> << SingleQuery(p) >>
      [] Mode(p) = "urls"         -> UrlsQueries(p)
      [] Mode(p) = "queryOptions" -> << OptionsQuery(p) >>
      [] OTHER                    -> <<>>

\* useQuery: the observed slot of the key; a key not yet in the cache is
\* observed as a fresh Loading slot
UseQuery(query, c) ==
    IF query.queryKey \in DOMAIN c
        THEN [data      |-> c[query.queryKey].data,
              error     |-> c[query.queryKey].error,
              isLoading |-> c[query.queryKey].status = "Loading"]
        ELSE [data |-> Absent, error |-> NullError, isLoading |-> TRUE]

\* useQueries: one result per query, in the order of the queries
UseQueries(queries, c) ==
    [i \in 1..Len(queries) |-> UseQuery(queries[i], c)]

\* variants that ignore waitForAll
AggregateIsLoadingEvery(results, waitForAll) ==
    \A i \in 1..Len(results) : results[i].isLoading
AggregateIsLoadingSome(results, waitForAll) ==
    \E i \in 1..Len(results) : results[i].isLoading

\* waitForAll ? results.some(r => r.isLoading) : results.every(r => r.isLoading)
AggregateIsLoading(results, waitForAll) ==
    IF Truthy(waitForAll)
        THEN \E i \in 1..Len(results) : results[i].isLoading
        ELSE \A i \in 1..Len(results) : results[i].isLoading

\* a variant that takes the last result with an error
AggregateErrorLast(results) ==
    IF \E i \in 1..Len(results) : results[i].error # NullError
        THEN LET last == CHOOSE i \in 1..Len(results) :
                            /\ results[i].error # NullError
                            /\ \A j \in (i+1)..Len(results) :
                                  results[j].error = NullError
             IN  results[last].error
        ELSE NullError

\* results.find(r => r.error)?.error; NullError stands for undefined here
AggregateError(results) ==
    IF \E i \in 1..Len(results) : results[i].error # NullError
        THEN LET first == CHOOSE i \in 1..Len(results) :
                            /\ results[i].error # NullError
                            /\ \A j \in 1..(i-1) : results[j].error = NullError
             IN  results[first].error
        ELSE NullError

\* a variant that keeps only the data that is there
ResultsDataCompact(results) ==
    SelectSeq([i \in 1..Len(results) |-> results[i].data], LAMBDA d : d # Absent)

\* results.map(r => r.data)
ResultsData(results) == [i \in 1..Len(results) |-> results[i].data]

\* a variant that builds a new element of the view's type, whatever the view
renderErrorAsComponent(ErrorComponent, error) ==
    Output("error", ErrorComponent.type, {}, error, NoArg)

\* renderError(ErrorComponent, error)
renderError(ErrorComponent, error) ==
    IF ErrorComponent.isElement
        THEN Output("error", ErrorComponent.type, ErrorComponent.props, error, NoArg)
        ELSE Output("error", ErrorComponent.type, {}, error, NoArg)

\* a variant that looks at isLoading before error
ResolveLoadingFirst(p, error, isLoading, arg) ==
    IF isLoading /\ Truthy(IF p.LoadingComponent = Undef THEN "<div>Loading...</div>"
                           ELSE p.LoadingComponent)
        THEN Output("loading",
                    IF p.LoadingComponent = Undef THEN "<div>Loading...</div>"
                    ELSE p.LoadingComponent,
                    {}, NullError, NoArg)
    ELSE IF error # NullError
        THEN Output("error",
                    (IF p.ErrorComponent = Absent THEN DefaultError
                     ELSE Get(p.ErrorComponent)).type,
                    (IF p.ErrorComponent = Absent THEN DefaultError
                     ELSE Get(p.ErrorComponent)).props,
                    error, NoArg)
    ELSE IF p.children = Undef
        THEN Throws(NotAFunction)
    ELSE Output("success", p.children, {}, NullError, arg)

\* the three returns every case of Fetch ends with
Resolve(p, error, isLoading, arg) ==
    IF error # NullError
        THEN renderError(ErrorComponentOf(p), error)
    ELSE IF isLoading /\ Truthy(LoadingComponentOf(p))
        THEN Output("loading", LoadingComponentOf(p), {}, NullError, NoArg)
    ELSE IF p.children = Undef
        THEN Throws(NotAFunction)
    ELSE Output("success", p.children, {}, NullError, arg)

\* Fetch(props), rendered against the cache c
Fetch(p, c) ==
    IF Truthy(p.url) THEN
        LET r == UseQuery(SingleQuery(p), c)
        IN  Resolve(p, r.error, r.isLoading, One(r.data))
    ELSE IF p.urls # Absent THEN
        LET results == UseQueries(UrlsQueries(p), c)
        IN  Resolve(p, AggregateError(results),
                    AggregateIsLoading(results, WaitForAllOf(p)),
                    Array(ResultsData(results)))
    ELSE IF p.queryOptions # Absent THEN
        LET r == UseQuery(OptionsQuery(p), c)
        IN  Resolve(p, r.error, r.isLoading, One(r.data))
    ELSE Throws(ConfigurationError)

---------------------------------------------------------------------------
(* The props the components of the model are rendered with *)

Comps == {"A", "B"}

Props(url, urls, method, params, body, queryOptions, children, LoadingComponent, ErrorComponent, waitForAll) ==
    [url |-> url, urls |-> urls, method |-> method, params |-> params,
     body |-> body, queryOptions |-> queryOptions, children |-> children,
     LoadingComponent |-> LoadingComponent, ErrorComponent |-> ErrorComponent,
     waitForAll |-> waitForAll]

\* <Fetch /> with no prop at all: the props of a component not yet rendered
NoProps ==
    Props(Undef, Absent, Undef, Absent, Undef, Absent, Undef, Undef, Absent, Undef)

\* every urls array of at most MaxUrls locators
UrlSeqs == UNION { [1..n -> Locators] : n \in 0..MaxUrls }

\* params={{ query: "react" }}
SearchParams ==
    Given(<< [key |-> "query", kind |-> "scalar", items |-> <<"react">>] >>)

\* queryOptions={{ queryKey: ['users'], queryFn: usersFn }} and
\* queryOptions={{ staleTime: 5000 }} (no key, no function)
UsersFn      == [fn |-> "usersFn", args |-> <<>>]
NoFn         == [fn |-> Undef, args |-> <<>>]
UsersOptions == [queryKey |-> Given(<<"users">>), queryFn |-> UsersFn]
StaleOptions == [queryKey |-> Absent, queryFn |-> NoFn]

\* The three request props (url, urls, queryOptions) in every combination,
\* with the default method, views and a children function
ModeProps ==
    { Props(url, urls, Undef, Absent, Undef, qo, "children", Undef, Absent, Undef) :
        url \in {Undef, "", "/a"},
        urls \in {Absent, Given(<<>>), Given(<<"/a">>), Given(<<"/b">>)},
        qo \in {Absent, Given(UsersOptions), Given(StaleOptions)} }

\* One request of each case
ViewRequests ==
    { <<"/a", Absent, Absent>>, <<Undef, Absent, Given(UsersOptions)>> }
        \cup { <<Undef, Given(s), Absent>> : s \in UrlSeqs }

\* children, LoadingComponent and waitForAll in every combination, and
\* apart from them every ErrorComponent, for each of these requests
ViewProps ==
    { Props(rq[1], rq[2], Undef, Absent, Undef, rq[3], children, lc, Absent, wfa) :
        rq \in ViewRequests,
        children \in {Undef, "children"},
        lc \in {Undef, Null, Spinner},
        wfa \in {Undef, True, False} }
    \cup
    { Props(rq[1], rq[2], Undef, Absent, Undef, rq[3], "children", Undef, ec, Undef) :
        rq \in ViewRequests,
        ec \in {Given(CustomError), Given(ErrorBanner)} }

\* A second component that asks for "/a" or for the caller's own query
SharingProps ==
    { Props("/a", Absent, method, Absent, Undef, Absent, "children", Undef, Absent, Undef) :
        method \in {Undef, "POST"} }
        \cup { Props(Undef, Absent, Undef, Absent, Undef, Given(UsersOptions),
                     "children", Undef, Absent, Undef) }

\* One request through makeFetchRequest, in every combination of its arguments
ExecProps ==
    { Props(url, Absent, method, params, body, Absent, "children", Undef, Absent, Undef) :
        url \in Locators,
        method \in {Undef, "POST"},
        params \in {Absent, SearchParams},
        body \in {Undef, Zero, BodyUser} }

---------------------------------------------------------------------------
(* The query engine: slots, and the executor calls in flight *)

\* what a caller's own queryFn can settle to
CustomData    == <<"users">>
CustomFailure == Error("Error", "usersFn failed", <<"usersFn">>)
MissingQueryFn == Error("Error", "Missing queryFn", <<>>)

\* the transport calls starting one execution of queryFn makes
StartExecutor(queryFn) ==
    IF queryFn.fn = "makeFetchRequest"
        THEN MakeFetchRequestSends(queryFn.args[1], queryFn.args[2],
                                   queryFn.args[3], queryFn.args[4])
        ELSE <<>>

\* a slot as the engine creates it: Loading, its first execution started
FreshSlot(queryFn) ==
    [status |-> "Loading", data |-> Absent, error |-> NullError,
     queryFn |-> queryFn, sent |-> StartExecutor(queryFn),
     failureCount |-> 0, result |-> Absent]

\* the cache after the queries are subscribed to: a key not yet in the cache
\* gets a fresh slot running the function of the first query that names it
Subscribe(queries, c) ==
    LET keys == { queries[i].queryKey : i \in 1..Len(queries) }
        firstOf(k) == CHOOSE i \in 1..Len(queries) :
                        /\ queries[i].queryKey = k
                        /\ \A j \in 1..(i-1) : queries[j].queryKey # k
    IN  [k \in DOMAIN c \cup keys |->
            IF k \in DOMAIN c THEN c[k]
            ELSE FreshSlot(queries[firstOf(k)].queryFn)]

\* the ways the execution in flight for a slot can end: the transport's
\* result (Absent for a caller's own function) and the promise's outcome
Exchanges(slot, full) ==
    IF slot.queryFn.fn = "makeFetchRequest" THEN
        LET request == slot.sent[Len(slot.sent)]
        IN  { [result |-> Given(r), outcome |-> MakeFetchRequestOutcome(request, r)] :
                r \in IF full THEN TransportResults(request)
                              ELSE PlainResults(request) }
    ELSE IF slot.queryFn.fn = Undef THEN
        { [result |-> Absent, outcome |-> Rejected(MissingQueryFn)] }
    ELSE
        { [result |-> Absent, outcome |-> Resolved(CustomData)],
          [result |-> Absent, outcome |-> Rejected(CustomFailure)] }

\* the slot once its execution has ended with exchange x and the engine
\* does not run it again
Settled(slot, x) ==
    IF x.outcome.resolved
        THEN [slot EXCEPT !.status = "Succeeded", !.data = x.outcome.data,
                          !.error = NullError, !.result = x.result]
        ELSE [slot EXCEPT !.status = "Failed", !.error = x.outcome.error,
                          !.result = x.result]

\* the slot once the engine has started its function again after a failure
Retried(slot) ==
    [slot EXCEPT !.failureCount = @ + 1,
                 !.sent = @ \o StartExecutor(slot.queryFn)]

\* every component that is rendered and has not thrown renders again
RenderAll(ps, live, c) ==
    [d \in Comps |-> IF d \in live /\ output[d].kind # "throw"
                         THEN Fetch(ps[d], c)
                         ELSE output[d]]

---------------------------------------------------------------------------
(* The state machine *)

Init ==
    /\ props = [c \in Comps |-> NoProps]
    /\ mounted = {}
    /\ cache = << >>
    /\ output = [c \in Comps |-> NotRendered]

\* Component c is rendered for the first time, with props p.  A render that
\* throws commits nothing: the component subscribes to no slot.
Mount(c, p) ==
    /\ c \notin mounted
    /\ props' = [props EXCEPT ![c] = p]
    /\ mounted' = mounted \cup {c}
    /\ IF Fetch(p, cache).kind = "throw"
           THEN /\ cache' = cache
                /\ output' = [output EXCEPT ![c] = Fetch(p, cache)]
           ELSE /\ cache' = Subscribe(Queries(p), cache)
                /\ output' = [RenderAll(props', mounted, cache')
                                 EXCEPT ![c] = Fetch(p, cache')]

\* The execution in flight for key k ends and the slot settles
Settle(k, full) ==
    /\ cache[k].status = "Loading"
    /\ \E x \in Exchanges(cache[k], full) :
          cache' = [cache EXCEPT ![k] = Settled(@, x)]
    /\ output' = RenderAll(props, mounted, cache')
    /\ UNCHANGED <<props, mounted>>

\* The execution in flight for key k fails and the engine runs it again
Retry(k, full) ==
    /\ cache[k].status = "Loading"
    /\ cache[k].failureCount < MaxRetries
    /\ \E x \in Exchanges(cache[k], full) : ~x.outcome.resolved
    /\ cache' = [cache EXCEPT ![k] = Retried(@)]
    /\ output' = RenderAll(props, mounted, cache')
    /\ UNCHANGED <<props, mounted>>

NextOf(propsA, propsB, full) ==
    \/ \E p \in propsA : Mount("A", p)
    \/ \E p \in propsB : Mount("B", p)
    \/ \E k \in DOMAIN cache : Settle(k, full)
    \/ \E k \in DOMAIN cache : Retry(k, full)

Next == NextOf(ModeProps \cup ViewProps \cup ExecProps, SharingProps, FALSE)

Spec == Init /\ [][Next]_vars

\* every result of the transport, for one request in every combination of its
\* arguments and a second component asking for another locator
NextExec ==
    NextOf(ExecProps,
           { Props("/b", Absent, Undef, Absent, Undef, Absent,
                   "children", Undef, Absent, Undef) },
           TRUE)

SpecExec == Init /\ [][NextExec]_vars

---------------------------------------------------------------------------
(* What the properties below speak of *)

\* c has been rendered and no render of it has thrown
Live(c) == c \in mounted /\ output[c].kind # "throw"

\* the urls of c, their number, and the slot of the i-th of them
UrlsOf(c)    == Get(props[c].urls)
NumUrls(c)   == Len(UrlsOf(c))
SlotAt(c, i) ==
    cache[<<UrlsOf(c)[i], MethodOf(props[c]), props[c].params, props[c].body>>]

InUrlsMode(c) ==
    /\ Live(c)
    /\ ~Truthy(props[c].url)
    /\ props[c].urls # Absent

FailedAt(c)    == { i \in 1..NumUrls(c) : SlotAt(c, i).status = "Failed" }
LoadingAt(c)   == { i \in 1..NumUrls(c) : SlotAt(c, i).status = "Loading" }
SucceededAt(c) == { i \in 1..NumUrls(c) : SlotAt(c, i).status = "Succeeded" }

Lowest(S) == CHOOSE i \in S : \A j \in S : i <= j

\* the loading view c shows, if it shows one
LoadingViewOf(c) ==
    IF props[c].LoadingComponent = Undef THEN DefaultLoading
    ELSE props[c].LoadingComponent
HasLoadingView(c) == props[c].LoadingComponent # Null

---------------------------------------------------------------------------
(* C1 - C5: the multi-resource aggregate and the presentation resolver *)

\* C1: in multi-resource mode, under either wait policy, whenever at least
\* one slot is Failed the render is the error view, with the error of the
\* Failed slot of lowest position in urls; it is neither the loading view
\* nor the result of the success callback.
C1_ErrorPolicy ==
    \A c \in Comps :
        (InUrlsMode(c) /\ FailedAt(c) # {}) =>
            /\ output[c].kind = "error"
            /\ output[c].error = SlotAt(c, Lowest(FailedAt(c))).error

\* C1 witness: two slots Failed with different errors; the error shown is
\* that of position 1
C1_Witness ==
    \E c \in Comps :
        /\ InUrlsMode(c)
        /\ FailedAt(c) = {1, 2}
        /\ SlotAt(c, 1).error # SlotAt(c, 2).error
        /\ output[c].kind = "error"
        /\ output[c].error = SlotAt(c, 1).error

\* C2: with waitForAll = true, no slot Failed and a loading view provided,
\* the render is the loading view as long as some slot is Loading, and the
\* success callback is invoked only when no slot is Loading.
C2_WaitForAll ==
    \A c \in Comps :
        (/\ InUrlsMode(c)
         /\ props[c].waitForAll = True
         /\ FailedAt(c) = {}
         /\ HasLoadingView(c)) =>
            /\ LoadingAt(c) # {} =>
                  (output[c].kind = "loading" /\ output[c].type = LoadingViewOf(c))
            /\ output[c].kind = "success" => LoadingAt(c) = {}

\* C2 witness: the first slot has Succeeded, the second is Loading, and the
\* loading view is still shown
C2_Witness ==
    \E c \in Comps :
        /\ InUrlsMode(c)
        /\ props[c].waitForAll = True
        /\ SucceededAt(c) = {1}
        /\ LoadingAt(c) = {2}
        /\ output[c].kind = "loading"

\* C3: with waitForAll = false or omitted and no slot Failed, the loading
\* view (when provided) is shown exactly while every slot is Loading; once a
\* slot has Succeeded the success callback gets an array of length N with
\* each Succeeded slot's payload at its position and undefined at the
\* position of every slot still Loading.
C3_FirstSettled ==
    \A c \in Comps :
        (/\ InUrlsMode(c)
         /\ props[c].waitForAll \in {Undef, False}
         /\ FailedAt(c) = {}) =>
            /\ HasLoadingView(c) =>
                  (output[c].kind = "loading" <=> LoadingAt(c) = 1..NumUrls(c))
            /\ SucceededAt(c) # {} =>
                  /\ output[c].kind = "success"
                  /\ output[c].arg.isArray
                  /\ Len(output[c].arg.items) = NumUrls(c)
                  /\ \A i \in SucceededAt(c) :
                        output[c].arg.items[i] = Given(<<UrlsOf(c)[i]>>)
                  /\ \A i \in LoadingAt(c) : output[c].arg.items[i] = Absent

\* C3 witness: waitForAll omitted, the first slot Succeeded, the second
\* Loading: the callback got [data1, undefined]
C3_Witness ==
    \E c \in Comps :
        /\ InUrlsMode(c)
        /\ props[c].waitForAll = Undef
        /\ SucceededAt(c) = {1}
        /\ LoadingAt(c) = {2}
        /\ output[c].kind = "success"
        /\ output[c].arg = Array(<<Given(<<UrlsOf(c)[1]>>), Absent>>)

\* C4: whatever the order of completion, the array handed to the success
\* callback has the length of urls and holds at position i nothing but the
\* data of the slot of urls[i] (the resource of that locator, or undefined
\* while that slot is Loading).
C4_InputOrder ==
    \A c \in Comps :
        (InUrlsMode(c) /\ output[c].kind = "success") =>
            /\ output[c].arg.isArray
            /\ Len(output[c].arg.items) = NumUrls(c)
            /\ \A i \in 1..NumUrls(c) :
                  output[c].arg.items[i] =
                      IF i \in SucceededAt(c) THEN Given(<<UrlsOf(c)[i]>>)
                                              ELSE Absent

\* C4 witness: urls = ["/b", "/a"], both Succeeded, the callback got the
\* resource of "/b" first and that of "/a" second
C4_Witness ==
    \E c \in Comps :
        /\ InUrlsMode(c)
        /\ UrlsOf(c) = <<"/b", "/a">>
        /\ output[c].kind = "success"
        /\ output[c].arg = Array(<<Given(<<"/b">>), Given(<<"/a">>)>>)

\* the slots a rendered component observes, in any of the three modes
SlotsOf(c) ==
    { cache[Queries(props[c])[i].queryKey] : i \in 1..Len(Queries(props[c])) }

\* C5: in all three input modes a render that does not throw produces
\* exactly one of the error view, the loading view and the success
\* callback's result, chosen error first, then loading, then success: the
\* error view is produced exactly when a slot is Failed (so neither the
\* loading view nor the success callback in a Failed state), the loading
\* view only when one is provided, and in the two single-slot modes with a
\* loading view provided the success callback only when the slot is not
\* Loading.
C5_Precedence ==
    \A c \in Comps :
        Live(c) =>
            LET anyFailed == \E s \in SlotsOf(c) : s.status = "Failed"
                anyLoading == \E s \in SlotsOf(c) : s.status = "Loading"
            IN  /\ output[c].kind \in {"error", "loading", "success"}
                /\ output[c].kind = "error" <=> anyFailed
                /\ output[c].kind = "loading" => HasLoadingView(c)
                /\ (Mode(props[c]) # "urls" /\ HasLoadingView(c)) =>
                      (output[c].kind = "loading" <=> anyLoading)
                /\ output[c].kind = "success" => output[c].error = NullError
                /\ output[c].kind # "success" => output[c].arg = NoArg

\* C5 witness: a component in the raw query configuration mode whose slot
\* has Failed shows the error view
C5_Witness ==
    \E c \in Comps :
        /\ Live(c)
        /\ Mode(props[c]) = "queryOptions"
        /\ \E s \in SlotsOf(c) : s.status = "Failed"
        /\ output[c].kind = "error"
        /\ output[c].error = CustomFailure

---------------------------------------------------------------------------
(* C6 - C9: input modes, keys and sharing *)

\* C6 (as claimed): the first render of Fetch throws the configuration error
\* if and only if none of url, urls and queryOptions is supplied.
C6_ConfigurationErrorIffNoneSupplied ==
    \A c \in mounted :
        output[c] = Throws(ConfigurationError) <=>
            (/\ props[c].url = Undef
             /\ props[c].urls = Absent
             /\ props[c].queryOptions = Absent)

\* the query made of the caller's own queryOptions, unchanged
OwnQuery(c) ==
    [queryKey |-> IF Get(props[c].queryOptions).queryKey = Absent THEN <<>>
                  ELSE Get(Get(props[c].queryOptions).queryKey),
     queryFn  |-> Get(props[c].queryOptions).queryFn]

\* c hands the engine its own query and nothing else, and observes the slot
\* of that key, which runs the caller's function unless another component
\* asked for the same key
BoundToOwnQuery(c) ==
    /\ Queries(props[c]) = << OwnQuery(c) >>
    /\ Live(c) =>
          /\ OwnQuery(c).queryKey \in DOMAIN cache
          /\ (\A d \in mounted \ {c} :
                 \A i \in 1..Len(Queries(props[d])) :
                     Queries(props[d])[i].queryKey # OwnQuery(c).queryKey)
                => cache[OwnQuery(c).queryKey].queryFn = OwnQuery(c).queryFn

\* C7 (as claimed): whenever queryOptions is supplied and url is absent,
\* the slot Fetch binds to uses the configuration's own queryKey and queryFn.
C7_EscapeHatchWhenUrlAbsent ==
    \A c \in mounted :
        (props[c].queryOptions # Absent /\ props[c].url = Undef) =>
            BoundToOwnQuery(c)

\* C7 (amended): whenever queryOptions is supplied, url is absent or empty
\* and urls is absent, the slot Fetch binds to uses the configuration's own
\* queryKey and queryFn, neither replaced by a derived key or by
\* makeFetchRequest.
C7_EscapeHatch ==
    \A c \in mounted :
        (/\ props[c].queryOptions # Absent
         /\ props[c].url \in {Undef, ""}
         /\ props[c].urls = Absent) =>
            BoundToOwnQuery(c)

\* C7 witness: a component given only queryOptions; its slot has the key
\* ['users'], ran usersFn and handed its data to the success callback
C7_Witness ==
    \E c \in Comps :
        /\ Live(c)
        /\ props[c].queryOptions = Given(UsersOptions)
        /\ props[c].url = Undef
        /\ props[c].urls = Absent
        /\ <<"users">> \in DOMAIN cache
        /\ cache[<<"users">>].queryFn = UsersFn
        /\ cache[<<"users">>].status = "Succeeded"
        /\ output[c].kind = "success"
        /\ output[c].arg = One(Given(CustomData))

\* the requests of the rendered components that go through makeFetchRequest:
\* one per slot a component asks for, with the four fields of its descriptor,
\* whether the caller gave the key, and the key it is bound to
Binding(c, i) ==
    [comp |-> c,
     pos |-> i,
     descriptor |-> << IF Truthy(props[c].url) THEN props[c].url ELSE UrlsOf(c)[i],
                       IF props[c].method = Undef THEN "GET" ELSE props[c].method,
                       props[c].params,
                       props[c].body >>,
     explicit |-> /\ Truthy(props[c].url)
                  /\ props[c].queryOptions # Absent
                  /\ Get(props[c].queryOptions).queryKey # Absent,
     key |-> Queries(props[c])[i].queryKey]

Bindings ==
    UNION { { Binding(c, i) : i \in 1..Len(Queries(props[c])) } :
            c \in { d \in Comps :
                      /\ Live(d)
                      /\ (Truthy(props[d].url) \/ props[d].urls # Absent) } }

\* C8: the key of a slot is a function of (locator, method, params, body):
\* two requests get the same key exactly when the four fields are the same,
\* except that in single-locator mode a key given by the caller
\* (queryOptions.queryKey) is used instead of the derived one.
C8_KeyDerivation ==
    /\ \A b1, b2 \in Bindings :
          (~b1.explicit /\ ~b2.explicit) =>
              (b1.key = b2.key <=> b1.descriptor = b2.descriptor)
    /\ \A b \in Bindings :
          /\ b.explicit =>
                b.key = Get(Get(props[b.comp].queryOptions).queryKey)
          /\ b.key \in DOMAIN cache

\* C8 witness: two rendered components whose requests differ in the method
\* only and are bound to two different slots
C8_Witness ==
    \E b1, b2 \in Bindings :
        /\ b1.comp # b2.comp
        /\ ~b1.explicit /\ ~b2.explicit
        /\ b1.descriptor[1] = b2.descriptor[1]
        /\ b1.descriptor[2] # b2.descriptor[2]
        /\ b1.descriptor[3] = b2.descriptor[3]
        /\ b1.descriptor[4] = b2.descriptor[4]
        /\ b1.key # b2.key

\* one execution of makeFetchRequest per attempt of a slot, however many
\* components observe it: one transport request for the first run and one
\* for each run the engine started again
OneExecutionPerAttempt ==
    \A k \in DOMAIN cache :
        cache[k].queryFn.fn = "makeFetchRequest" =>
            Len(cache[k].sent) = cache[k].failureCount + 1

\* C9 (as claimed): requests with the same url, method, params and body
\* always coalesce into one slot with one execution.
C9_SameDescriptorOneSlot ==
    /\ \A b1, b2 \in Bindings :
          b1.descriptor = b2.descriptor => b1.key = b2.key
    /\ OneExecutionPerAttempt

\* C9 (amended): requests with the same url, method, params and body that
\* are bound by the derived key (no queryOptions.queryKey given with url)
\* coalesce: they are bound to one slot, observe the same state, and the
\* slot runs one execution of the executor, not one per observer.
C9_SameKeyOneSlot ==
    /\ \A b1, b2 \in Bindings :
          (b1.descriptor = b2.descriptor /\ ~b1.explicit /\ ~b2.explicit) =>
              /\ b1.key = b2.key
              /\ UseQuery([queryKey |-> b1.key], cache)
                    = UseQuery([queryKey |-> b2.key], cache)
    /\ OneExecutionPerAttempt

\* C9 witness: two components ask for the same descriptor while its slot is
\* Loading; there is one slot and one transport request
C9_Witness ==
    \E b1, b2 \in Bindings :
        /\ b1.comp # b2.comp
        /\ b1.descriptor = b2.descriptor
        /\ ~b1.explicit /\ ~b2.explicit
        /\ b1.key = b2.key
        /\ cache[b1.key].status = "Loading"
        /\ Len(cache[b1.key].sent) = 1

---------------------------------------------------------------------------
(* C10: the outcome of the request executor *)

\* the slots settled by a response of the transport
SettledByResponse ==
    { k \in DOMAIN cache :
        /\ cache[k].status # "Loading"
        /\ cache[k].result # Absent
        /\ Get(cache[k].result).kind = "response" }

FailedWith(slot, message) ==
    /\ slot.status = "Failed"
    /\ slot.data = Absent
    /\ slot.error.message = message

\* the first two cases of the executor: a failure status, then a content
\* type that is missing or not JSON
StatusOrContentTypeFailure(slot, r) ==
    IF r.status \notin 200..299
        THEN FailedWith(slot, "HTTP error! status: " \o ToString(r.status)
                                 \o ", body: " \o r.text)
        ELSE FailedWith(slot, "Expected JSON response but got " \o r.contentType
                                 \o ", body: " \o r.text)
IsStatusOrContentTypeFailure(r) ==
    \/ r.status \notin 200..299
    \/ r.contentType \notin {JSON_CT, JSON_CT_CHARSET}

\* one transport call per executor call, and no failure thrown out of a render
OneCallNoThrow ==
    /\ OneExecutionPerAttempt
    /\ \A c \in mounted :
          /\ output[c].kind # "throw"
          /\ output[c].kind = "error" <=>
                \E s \in SlotsOf(c) : s.status = "Failed"

\* C10 (as claimed): a failure status fails with the status and body text;
\* otherwise a missing or non-JSON content type fails with the content type
\* and body text; otherwise the parsed JSON payload is returned.
C10_OutcomeAlwaysPayload ==
    /\ \A k \in SettledByResponse :
          LET r == Get(cache[k].result)
          IN  IF IsStatusOrContentTypeFailure(r)
                  THEN StatusOrContentTypeFailure(cache[k], r)
                  ELSE /\ cache[k].status = "Succeeded"
                       /\ cache[k].error = NullError
    /\ OneCallNoThrow

\* C10 (amended): as claimed for the first two cases; otherwise the body is
\* parsed as JSON, and the parsed payload is returned when the body is JSON
\* while the executor fails with the parser's error when it is not.  One
\* executor call makes one transport call, and a failure is the Failed state
\* of the slot (the error view), never an exception out of the render.
C10_ExecutorOutcome ==
    /\ \A k \in SettledByResponse :
          LET r == Get(cache[k].result)
              url == cache[k].queryFn.args[1]
          IN  IF IsStatusOrContentTypeFailure(r)
                  THEN StatusOrContentTypeFailure(cache[k], r)
              ELSE IF r.text = ResourceText(url)
                  THEN /\ cache[k].status = "Succeeded"
                       /\ cache[k].data = Given(<<url>>)
                       /\ cache[k].error = NullError
              ELSE /\ cache[k].status = "Failed"
                   /\ cache[k].data = Absent
                   /\ cache[k].error.name = "SyntaxError"
    /\ OneCallNoThrow

\* C10 witness: a 404 response that declares JSON and carries JSON fails
\* with the status and the body text, and the component shows the error view
C10_Witness ==
    \E k \in SettledByResponse :
        /\ Get(cache[k].result) =
              Response(404, JSON_CT, ResourceText(cache[k].queryFn.args[1]))
        /\ cache[k].status = "Failed"
        /\ cache[k].error.message =
              "HTTP error! status: 404, body: "
                  \o ResourceText(cache[k].queryFn.args[1])
        /\ \E c \in Comps :
              /\ Live(c)
              /\ cache[k] \in SlotsOf(c)
              /\ output[c].kind = "error"
              /\ output[c].error = cache[k].error

---------------------------------------------------------------------------
(* C11: buildQueryString called on its own *)

\* the longest array a parameter holds
MaxItems == 3

ParamKeys   == {"q", "tag"}
ItemValues  == {"a", "b", Null, Undef}
ParamArrays == UNION { [1..n -> ItemValues] : n \in 0..MaxItems }

\* the values of an entry: null or undefined, a string, the number 0, an array
ScalarValues ==
    { [kind |-> "nullish", items |-> <<>>],
      [kind |-> "scalar", items |-> <<"react">>],
      [kind |-> "scalar", items |-> <<Zero>>] }
ParamValues ==
    ScalarValues \cup { [kind |-> "array", items |-> a] : a \in ParamArrays }

\* the same with no array of more than one element
ShortValues == { v \in ParamValues : Len(v.items) <= 1 }

Entry(key, value) == [key |-> key, kind |-> value.kind, items |-> value.items]

\* no mapping, the empty mapping, and every mapping of one or two keys in
\* either insertion order, tag holding any value and q a short one
ParamMappings ==
    {Absent, Given(<<>>)}
        \cup { Given(<< Entry(k, v) >>) : k \in ParamKeys, v \in ParamValues }
        \cup { Given(<< Entry("q", v), Entry("tag", w) >>) :
                 v \in ShortValues, w \in ParamValues }
        \cup { Given(<< Entry("tag", w), Entry("q", v) >>) :
                 v \in ShortValues, w \in ParamValues }

\* what a call of buildQueryString has returned, with the pairs its
\* URLSearchParams object held at the return
Returned(value, urlParams) ==
    Output("returned", value, {}, NullError, Array(urlParams))

\* the argument of the call is props["A"].params
InitQuery ==
    /\ props \in { [c \in Comps |-> [NoProps EXCEPT !.params = m]] :
                     m \in ParamMappings }
    /\ mounted = {}
    /\ cache = << >>
    /\ output = [c \in Comps |-> NotRendered]

CallBuildQueryString ==
    /\ output["A"].kind = "none"
    /\ output' = [output EXCEPT !["A"] =
                     Returned(buildQueryString(props["A"].params),
                              UrlParamsOf(props["A"].params))]
    /\ UNCHANGED <<props, mounted, cache>>

NextQuery == CallBuildQueryString

SpecQuery == InitQuery /\ [][NextQuery]_vars

\* the pairs an entry is to contribute
NonNull(items) == SelectSeq(items, LAMBDA item : item \notin {Null, Undef})
Contribution(e) ==
    IF e.kind = "nullish" THEN <<>>
    ELSE IF e.kind = "array"
        THEN [i \in 1..Len(NonNull(e.items)) |-> <<e.key, NonNull(e.items)[i]>>]
    ELSE << <<e.key, e.items[1]>> >>

\* C11: buildQueryString of an absent mapping returns the empty string.  Of a
\* mapping it returns the serialised parameters, in which no value is null
\* or undefined, every parameter belongs to an entry of the mapping, the
\* parameters of an entry are none for a null or undefined value, one per
\* non-null element in element order for an array, and exactly one for any
\* other value, and the parameters of an earlier entry come before those of
\* a later one.
C11_QueryString ==
    output["A"].kind = "returned" =>
        LET params == props["A"].params
            qs     == output["A"].type
            ps     == output["A"].arg.items
        IN  IF params = Absent THEN qs = "" /\ ps = <<>>
            ELSE LET es == Get(params)
                     at(k) == CHOOSE n \in 1..Len(es) : es[n].key = k
                 IN  /\ qs = ToQueryString(ps)
                     /\ \A i \in 1..Len(ps) :
                           /\ ps[i][2] \notin {Null, Undef}
                           /\ \E n \in 1..Len(es) : es[n].key = ps[i][1]
                     /\ \A n \in 1..Len(es) :
                           SelectSeq(ps, LAMBDA pair : pair[1] = es[n].key)
                               = Contribution(es[n])
                     /\ \A i \in 1..Len(ps) : \A j \in i..Len(ps) :
                           at(ps[i][1]) <= at(ps[j][1])

\* a call with { q: null, tag: [a, null, b] } has returned "tag=a&tag=b"
C11_Witness ==
    /\ output["A"].kind = "returned"
    /\ props["A"].params =
          Given(<< Entry("q", [kind |-> "nullish", items |-> <<>>]),
                   Entry("tag", [kind |-> "array", items |-> <<"a", Null, "b">>]) >>)
    /\ output["A"].type = "tag=a&tag=b"
    /\ output["A"].arg.items = << <<"tag", "a">>, <<"tag", "b">> >>

---------------------------------------------------------------------------
(* C12 - C15: prefetching, the loading branch, the request body, the error view *)

\* <Fetch url=... LoadingComponent={null} /> without children
IsPrefetch(c) ==
    /\ c \in mounted
    /\ Truthy(props[c].url)
    /\ props[c].LoadingComponent = Null
    /\ props[c].children = Undef

\* C12: a Fetch rendered with a url, LoadingComponent = null and no children
\* does not fail: no render of it throws, neither while its slot is Loading
\* nor after the slot has Succeeded.
C12_PrefetchDoesNotFail ==
    \A c \in Comps : IsPrefetch(c) => output[c].kind # "throw"

\* the slots c observes, in the order of its queries, and the state the
\* presentation resolver is in: Failed when a slot is Failed, else Loading as
\* the wait policy says (the slot itself in the single-slot modes), else
\* Succeeded
ObservedSlots(c) ==
    LET queries == Queries(props[c])
    IN  [i \in 1..Len(queries) |-> cache[queries[i].queryKey]]
StateOf(c) ==
    LET slots == ObservedSlots(c)
        n == Len(slots)
    IN  IF \E i \in 1..n : slots[i].status = "Failed" THEN "Failed"
        ELSE IF Mode(props[c]) = "urls" /\ props[c].waitForAll # True
            THEN IF \A i \in 1..n : slots[i].status = "Loading"
                     THEN "Loading" ELSE "Succeeded"
        ELSE IF \E i \in 1..n : slots[i].status = "Loading" THEN "Loading"
        ELSE "Succeeded"

\* what the success callback is called with: the slot's data, or in
\* multi-resource mode the sequence of every slot's data
DataOf(c) ==
    LET slots == ObservedSlots(c)
    IN  IF Mode(props[c]) = "urls"
            THEN Array([i \in 1..Len(slots) |-> slots[i].data])
            ELSE One(slots[1].data)

C14_BodySentIffPresent ==
    \A k \in DOMAIN cache :
        cache[k].queryFn.fn = "makeFetchRequest" =>
            \A i \in 1..Len(cache[k].sent) :
                cache[k].sent[i].body # Absent <=> cache[k].queryFn.args[4] # Undef

\* the error the error policy selects: that of the Failed slot earliest in
\* the order of the queries
SelectedError(c) ==
    LET slots == ObservedSlots(c)
    IN  slots[Lowest({ i \in 1..Len(slots) : slots[i].status = "Failed" })].error

\* C15: in the Failed state, in all three modes, a component whose error
\* view is an element shows that element, its own properties unchanged, with
\* the error merged in as its error property; one whose error view is a
\* component shows that component applied to the error alone; one without an
\* error view shows DefaultError applied to the error.  The error is in
\* every case the one the error policy selects.
C15_ErrorView ==
    \A c \in Comps :
        (Live(c) /\ StateOf(c) = "Failed") =>
            LET error == SelectedError(c)
                view  == Get(props[c].ErrorComponent)
            IN  IF props[c].ErrorComponent = Absent
                    THEN output[c] = Output("error", "DefaultError", {},
                                            error, NoArg)
                ELSE IF view.isElement
                    THEN output[c] = Output("error", view.type, view.props,
                                            error, NoArg)
                ELSE output[c] = Output("error", view.type, {}, error, NoArg)

\* C15 witness: both slots of a component with an element as its error view
\* have Failed, and it shows the element with its title and the first
\* slot's error
C15_Witness ==
    \E c \in Comps :
        /\ Live(c)
        /\ Mode(props[c]) = "urls"
        /\ props[c].ErrorComponent = Given(ErrorBanner)
        /\ Len(ObservedSlots(c)) = 2
        /\ \A i \in 1..2 : ObservedSlots(c)[i].status = "Failed"
        /\ ObservedSlots(c)[1].error # ObservedSlots(c)[2].error
        /\ output[c] = Output("error", "ErrorBanner", {<<"title", "Oops">>},
                              ObservedSlots(c)[1].error, NoArg)

---------------------------------------------------------------------------
(* C16 - C18: progress, monotonicity and the dispatch on the input mode *)

\* C16: in multi-resource mode, for every urls array, the empty one
\* included, and either wait policy, a component does not show the loading
\* view when none of its slots is Loading.
C16_NoLoadingViewOnceNoSlotLoading ==
    \A c \in Comps :
        (InUrlsMode(c) /\ LoadingAt(c) = {}) => output[c].kind # "loading"

\* every position of the sequence the success callback was called with
\* holds a payload
EveryPositionDefined(c) ==
    \A i \in 1..Len(output[c].arg.items) : output[c].arg.items[i] # Absent

\* C17 (as claimed): in multi-resource mode with waitForAll = true, a
\* rendered success branch has every position defined.
C17_WaitForAllSuccessIsComplete ==
    \A c \in Comps :
        (/\ InUrlsMode(c)
         /\ props[c].waitForAll = True
         /\ output[c].kind = "success") => EveryPositionDefined(c)

\* one step of a component in multi-resource mode: no way back to the
\* loading view, and no way out of a success branch rendered under
\* waitForAll = true with a loading view in effect
MonotoneStep(c) ==
    /\ output[c].kind \in {"error", "success"} => output'[c].kind # "loading"
    /\ (/\ props[c].waitForAll = True
        /\ HasLoadingView(c)
        /\ output[c].kind = "success") => output'[c] = output[c]

\* C17: in multi-resource mode, under either wait policy, a component that
\* has rendered the error view or the success branch never shows the loading
\* view again; with waitForAll = true and a loading view in effect (any
\* LoadingComponent but null), a rendered success branch has every position
\* defined and no later render differs from it.
C17_Monotone ==
    /\ [](\A c \in Comps :
            (/\ InUrlsMode(c)
             /\ props[c].waitForAll = True
             /\ HasLoadingView(c)
             /\ output[c].kind = "success") => EveryPositionDefined(c))
    /\ [][\A c \in Comps : InUrlsMode(c) => MonotoneStep(c)]_vars

\* C17 witness: under waitForAll = true with the default loading view, both
\* slots have Succeeded and the success branch holds both payloads
C17_Witness ==
    \E c \in Comps :
        /\ InUrlsMode(c)
        /\ props[c].waitForAll = True
        /\ props[c].LoadingComponent = Undef
        /\ SucceededAt(c) = {1, 2}
        /\ output[c] = Output("success", "children", {}, NullError,
                              Array(<<Given(<<"/a">>), Given(<<"/b">>)>>))

\* C18: a component given a url, the empty string included, takes the single
\* locator path whatever else it is given: its render does not throw the
\* configuration error, and (no queryOptions given) the slot it observes is
\* the one derived from url, none being created for an element of urls.
C18_SuppliedUrlTakesSingleLocatorPath ==
    \A c \in mounted :
        props[c].url # Undef =>
            /\ output[c] # Throws(ConfigurationError)
            /\ (Live(c) /\ props[c].queryOptions = Absent) =>
                  \A k \in DOMAIN cache :
                      k = DerivedKey(props[c].url, MethodOf(props[c]),
                                     props[c].params, props[c].body)
                      \/ \E d \in mounted \ {c} :
                            k \in { Queries(props[d])[i].queryKey :
                                      i \in 1..Len(Queries(props[d])) }

=============================================================================
